---- MODULE Spec2Model ----
(***************************************************************************)
(* Model of the staking contract of src/src/main.rs: struct Contract with  *)
(* new, stake and distribute_rewards, the wall clock read by Utc::now(),   *)
(* and the caller that either catches a panic (the tests' assert_panics!)  *)
(* or dies of it (fn main).                                                *)
(*                                                                         *)
(* u64 is modelled with WordBits bits instead of 64, time in whole days.   *)
(* Arithmetic overflow panics when the build has overflow checks (debug    *)
(* profile) and wraps when it has not (release profile); the profile is    *)
(* chosen in Init and never changes.                                       *)
(***************************************************************************)
EXTENDS Integers, Sequences, FiniteSets, TLC

\* ---------------------------------------------------------------- bounds
WordBits == 6
MaxDays == 8

U64Modulus == 2 ^ WordBits
U64Max == U64Modulus - 1

Users == {"Alice", "Bob"}
Amounts == {0, 1, 2, U64Modulus \div 2, (U64Modulus \div 2) + 1}
TotalCoins == {0, 7, U64Max}
StartDates == {0, 2}

\* ------------------------------------------------------------- constants
\* chrono::Duration::days(7)
EnrollmentDays == 7

\* outcomes of a call: normal return, or the payload of the panic
Ok == "Ok"
DeadlineExceeded == "Cannot stake after 7 days"
AddOverflow == "attempt to add with overflow"
MulOverflow == "attempt to multiply with overflow"
DivideByZero == "attempt to divide by zero"

NoUser == "-"
NoResult == [outcome |-> "none", rewards |-> <<>>]
None == 0 - 1

VARIABLES
    total_coins,      \* Contract.total_coins : u64
    stakers,          \* Contract.stakers : HashMap<String, u64>, as the
                      \* sequence of its entries in the table's iteration order
    start_date,       \* Contract.start_date : DateTime<Utc>, in days
    now,              \* the wall clock Utc::now() reads, in days
    overflow_checks,  \* build profile: TRUE = debug (panic), FALSE = release (wrap)
    status,           \* "running", "unwinding" (a panic is in flight), "terminated"
    last,             \* the most recent call on the contract and what it gave
    latest,           \* per user the amount of the latest stake() that returned
    closed_at,        \* the time of the first stake() that panicked, None before
    open_result       \* what the latest distribute_rewards() called before the
                      \* deadline gave, NoResult when no such call was made
                      \* since the map last changed

vars == <<total_coins, stakers, start_date, now, overflow_checks, status, last,
          latest, closed_at, open_result>>

\* ------------------------------------------------------ HashMap<String,u64>
Entry(user, amount) == [user |-> user, amount |-> amount]

Keys(m) == {m[i].user : i \in DOMAIN m}

\* HashMap::get: the amount stored under user, None when absent
Get(m, user) ==
    IF \E i \in DOMAIN m : m[i].user = user
    THEN (CHOOSE e \in {m[i] : i \in DOMAIN m} : e.user = user).amount
    ELSE None

\* HashMap::len
MapLen(m) == Len(m)

InsertAt(m, i, e) == SubSeq(m, 1, i - 1) \o <<e>> \o SubSeq(m, i, Len(m))

\* a slip: += on the stored amount where insert replaces it
Insert_Accumulate(m, user, amount) ==
    IF user \in Keys(m)
    THEN {[i \in DOMAIN m |-> IF m[i].user = user
                                THEN Entry(user, (m[i].amount + amount) % U64Modulus)
                                ELSE m[i]]}
    ELSE {InsertAt(m, i, Entry(user, amount)) : i \in 1..(Len(m) + 1)}

\* a slip: the map replaced by one holding the new entry alone
Insert_DropOthers(m, user, amount) == {<<Entry(user, amount)>>}

\* HashMap::insert: an existing key keeps its slot and gets the new value; a
\* new key lands in a slot the hash decides (any place in iteration order).
\* The set of tables the call can leave.
Insert(m, user, amount) ==
    IF user \in Keys(m)
    THEN {[i \in DOMAIN m |-> IF m[i].user = user THEN Entry(user, amount) ELSE m[i]]}
    ELSE {InsertAt(m, i, Entry(user, amount)) : i \in 1..(Len(m) + 1)}

\* ------------------------------------------------------------ u64 arithmetic
\* The operators below take the modulus that stands for 2^64: U64Modulus in
\* Spec, MainModulus in MainSpec.
\* a + b on u64: [panic, value]; the panic only with overflow checks
Add(a, b, checks, modulus) ==
    IF a + b >= modulus /\ checks
    THEN [panic |-> AddOverflow, value |-> 0]
    ELSE [panic |-> Ok, value |-> (a + b) % modulus]

\* a * b on u64
Mul(a, b, checks, modulus) ==
    IF a * b >= modulus /\ checks
    THEN [panic |-> MulOverflow, value |-> 0]
    ELSE [panic |-> Ok, value |-> (a * b) % modulus]

\* a / b on u64: truncating, panics on a zero divisor in every build
Div(a, b) ==
    IF b = 0
    THEN [panic |-> DivideByZero, value |-> 0]
    ELSE [panic |-> Ok, value |-> a \div b]

\* self.stakers.values().sum::<u64>(): fold of + from 0 in iteration order
RECURSIVE SumValues(_, _, _, _, _)
SumValues(m, i, acc, checks, modulus) ==
    IF i > Len(m)
    THEN [panic |-> Ok, value |-> acc]
    ELSE LET s == Add(acc, m[i].amount, checks, modulus)
         IN  IF s.panic # Ok THEN s ELSE SumValues(m, i + 1, s.value, checks, modulus)

\* a slip: the division ahead of the multiplication
Reward_DivFirst(amount, coins, total_staked, checks, modulus) ==
    LET quot == Div(amount, total_staked)
    IN  IF quot.panic # Ok THEN quot ELSE Mul(quot.value, coins, checks, modulus)

\* the body of the for loop for one entry: (amount * total_coins) / total_staked
Reward(amount, coins, total_staked, checks, modulus) ==
    LET prod == Mul(amount, coins, checks, modulus)
    IN  IF prod.panic # Ok THEN prod ELSE Div(prod.value, total_staked)

\* the for loop from entry i on, rewards pushed so far in acc
RECURSIVE RewardLoop(_, _, _, _, _, _, _)
RewardLoop(m, i, coins, total_staked, checks, modulus, acc) ==
    IF i > Len(m)
    THEN [panic |-> Ok, rewards |-> acc]
    ELSE LET r == Reward(m[i].amount, coins, total_staked, checks, modulus)
         IN  IF r.panic # Ok
             THEN [panic |-> r.panic, rewards |-> <<>>]
             ELSE RewardLoop(m, i + 1, coins, total_staked, checks, modulus,
                             Append(acc, Entry(m[i].user, r.value)))

\* a slip: the share per staked unit worked out ahead of the loop, so that
\* the division is done even when there is no entry
distribute_rewards_ShareFirst(m, coins, checks, modulus) ==
    LET total_staked == SumValues(m, 1, 0, checks, modulus)
    IN  IF total_staked.panic # Ok
        THEN [panic |-> total_staked.panic, rewards |-> <<>>]
        ELSE IF Div(coins, total_staked.value).panic # Ok
        THEN [panic |-> Div(coins, total_staked.value).panic, rewards |-> <<>>]
        ELSE RewardLoop(m, 1, coins, total_staked.value, checks, modulus, <<>>)

\* Contract::distribute_rewards(&self): [panic, rewards]
distribute_rewards(m, coins, checks, modulus) ==
    LET total_staked == SumValues(m, 1, 0, checks, modulus)
    IN  IF total_staked.panic # Ok
        THEN [panic |-> total_staked.panic, rewards |-> <<>>]
        ELSE RewardLoop(m, 1, coins, total_staked.value, checks, modulus, <<>>)

\* ------------------------------------------------------------------- calls
\* the record of a call: what was called with what, when, what it gave;
\* replaced is the amount HashMap::insert found under the key (None if none),
\* again says that the call before it was a distribute_rewards() too
Call(op, user, amount, outcome, rewards, replaced, again) ==
    [op |-> op, user |-> user, amount |-> amount, time |-> now,
     outcome |-> outcome, rewards |-> rewards, replaced |-> replaced,
     again |-> again]

\* a slip: > where the code has >=
DeadlinePassed_Strict(t, start) == t > start + EnrollmentDays

\* a slip: = where the code has >=
DeadlinePassed_OnlyAt(t, start) == t = start + EnrollmentDays

\* the deadline test of stake(): Utc::now() >= self.start_date + 7 days
DeadlinePassed(t, start) == t >= start + EnrollmentDays

\* a slip: the argument dropped, total_coins left at zero
Init_ZeroCoins ==
    /\ total_coins = 0
    /\ stakers = <<>>
    /\ start_date \in StartDates
    /\ now = start_date
    /\ overflow_checks \in BOOLEAN
    /\ status = "running"
    /\ \E coins \in TotalCoins :
         last = [op |-> "new", user |-> NoUser, amount |-> coins,
                 time |-> now, outcome |-> Ok, rewards |-> <<>>,
                 replaced |-> None, again |-> FALSE]
    /\ latest = [u \in Users |-> None]
    /\ closed_at = None
    /\ open_result = NoResult

\* Contract::new(total_coins), called at one of the StartDates
Init ==
    /\ total_coins \in TotalCoins
    /\ stakers = <<>>
    /\ start_date \in StartDates
    /\ now = start_date
    /\ overflow_checks \in BOOLEAN
    /\ status = "running"
    /\ last = [op |-> "new", user |-> NoUser, amount |-> total_coins,
               time |-> now, outcome |-> Ok, rewards |-> <<>>,
               replaced |-> None, again |-> FALSE]
    /\ latest = [u \in Users |-> None]
    /\ closed_at = None
    /\ open_result = NoResult

\* a slip: the insert ahead of the deadline test
stake_InsertFirst(user, amount) ==
    /\ status = "running"
    /\ stakers' \in Insert(stakers, user, amount)
    /\ IF DeadlinePassed(now, start_date)
       THEN /\ status' = "unwinding"
            /\ last' = Call("stake", user, amount, DeadlineExceeded, <<>>, None, FALSE)
            /\ closed_at' = IF closed_at = None THEN now ELSE closed_at
            /\ UNCHANGED <<latest, open_result>>
       ELSE /\ last' = Call("stake", user, amount, Ok, <<>>, Get(stakers, user), FALSE)
            /\ latest' = [latest EXCEPT ![user] = amount]
            /\ open_result' = NoResult
            /\ UNCHANGED <<status, closed_at>>
    /\ UNCHANGED <<total_coins, start_date, now, overflow_checks>>

\* Contract::stake(&mut self, user, amount)
stake(user, amount) ==
    /\ status = "running"
    /\ IF DeadlinePassed(now, start_date)
       THEN /\ status' = "unwinding"
            /\ last' = Call("stake", user, amount, DeadlineExceeded, <<>>, None, FALSE)
            /\ closed_at' = IF closed_at = None THEN now ELSE closed_at
            /\ UNCHANGED <<stakers, latest, open_result>>
       ELSE /\ stakers' \in Insert(stakers, user, amount)
            /\ last' = Call("stake", user, amount, Ok, <<>>, Get(stakers, user), FALSE)
            /\ latest' = [latest EXCEPT ![user] = amount]
            /\ open_result' = NoResult
            /\ UNCHANGED <<status, closed_at>>
    /\ UNCHANGED <<total_coins, start_date, now, overflow_checks>>

Stake == \E user \in Users, amount \in Amounts : stake(user, amount)

\* a call of Contract::distribute_rewards(&self), u64 taken modulo modulus
Distribute(modulus) ==
    /\ status = "running"
    /\ LET r == distribute_rewards(stakers, total_coins, overflow_checks, modulus)
       IN  /\ last' = Call("distribute_rewards", NoUser, 0, r.panic, r.rewards, None,
                           last.op = "distribute_rewards")
           /\ status' = IF r.panic # Ok THEN "unwinding" ELSE "running"
           /\ open_result' = IF now < start_date + EnrollmentDays
                             THEN [outcome |-> r.panic, rewards |-> r.rewards]
                             ELSE open_result
    /\ UNCHANGED <<total_coins, stakers, start_date, now, overflow_checks, latest,
                   closed_at>>

\* a slip: the entries taken out of the map (drain) where the code borrows it
DistributeRewards_Drain ==
    /\ status = "running"
    /\ LET r == distribute_rewards(stakers, total_coins, overflow_checks, U64Modulus)
       IN  /\ last' = Call("distribute_rewards", NoUser, 0, r.panic, r.rewards, None,
                           last.op = "distribute_rewards")
           /\ status' = IF r.panic # Ok THEN "unwinding" ELSE "running"
           /\ open_result' = IF now < start_date + EnrollmentDays
                             THEN [outcome |-> r.panic, rewards |-> r.rewards]
                             ELSE open_result
    /\ stakers' = <<>>
    /\ UNCHANGED <<total_coins, start_date, now, overflow_checks, latest, closed_at>>

\* a slip: the deadline test of stake() put in distribute_rewards() as well
DistributeRewards_Gated ==
    /\ status = "running"
    /\ LET r == IF DeadlinePassed(now, start_date)
                THEN [panic |-> DeadlineExceeded, rewards |-> <<>>]
                ELSE distribute_rewards(stakers, total_coins, overflow_checks, U64Modulus)
       IN  /\ last' = Call("distribute_rewards", NoUser, 0, r.panic, r.rewards, None,
                           last.op = "distribute_rewards")
           /\ status' = IF r.panic # Ok THEN "unwinding" ELSE "running"
           /\ open_result' = IF now < start_date + EnrollmentDays
                             THEN [outcome |-> r.panic, rewards |-> r.rewards]
                             ELSE open_result
    /\ UNCHANGED <<total_coins, stakers, start_date, now, overflow_checks, latest,
                   closed_at>>

\* a call of Contract::distribute_rewards(&self)
DistributeRewards == Distribute(U64Modulus)

\* the wall clock moves on by a day
Tick ==
    /\ status = "running"
    /\ now < start_date + MaxDays
    /\ now' = now + 1
    /\ UNCHANGED <<total_coins, stakers, start_date, overflow_checks, status, last,
                   latest, closed_at, open_result>>

\* the caller catches the panic (assert_panics! of the tests) and goes on
CatchUnwind ==
    /\ status = "unwinding"
    /\ status' = "running"
    /\ UNCHANGED <<total_coins, stakers, start_date, now, overflow_checks, last,
                   latest, closed_at, open_result>>

\* nobody catches the panic (fn main): the process ends
Terminate ==
    /\ status = "unwinding"
    /\ status' = "terminated"
    /\ UNCHANGED <<total_coins, stakers, start_date, now, overflow_checks, last,
                   latest, closed_at, open_result>>

Next ==
    \/ Stake
    \/ DistributeRewards
    \/ Tick
    \/ CatchUnwind
    \/ Terminate

Spec == Init /\ [][Next]_vars

\* ------------------------------------------------------------------ fn main
\* The calls of fn main at their own magnitudes: new(1_000_000), then
\* stake("Alice", 5_000) and stake("Bob", 20_000), then distribute_rewards().
\* TLC's integers stop short of 20_000 * 1_000_000, so MainSpec counts the
\* stakes in thousands (the quotient amount * total_coins / total_staked is
\* the same for stakes counted in any common unit) and takes u64 modulo
\* MainModulus, which none of these products reaches, as 2^64 is not reached
\* by the products of fn main.
MainWordBits == 25
MainModulus == 2 ^ MainWordBits
MainTotalCoins == 1000000
MainStakes == [Alice |-> 5, Bob |-> 20]

MainInit ==
    /\ total_coins = MainTotalCoins
    /\ stakers = <<>>
    /\ start_date \in StartDates
    /\ now = start_date
    /\ overflow_checks \in BOOLEAN
    /\ status = "running"
    /\ last = [op |-> "new", user |-> NoUser, amount |-> total_coins,
               time |-> now, outcome |-> Ok, rewards |-> <<>>,
               replaced |-> None, again |-> FALSE]
    /\ latest = [u \in Users |-> None]
    /\ closed_at = None
    /\ open_result = NoResult

MainStake == \E user \in DOMAIN MainStakes : stake(user, MainStakes[user])

MainDistributeRewards == Distribute(MainModulus)

MainNext ==
    \/ MainStake
    \/ MainDistributeRewards
    \/ Tick
    \/ CatchUnwind
    \/ Terminate

MainSpec == MainInit /\ [][MainNext]_vars

\* ------------------------------------------------------- what the claims use
\* the step is a call of stake(): the caller is running, the clock stands
\* still and the call recorded after it is a stake
StakeCall ==
    /\ status = "running"
    /\ now' = now
    /\ last'.op = "stake"

\* the step is a call of distribute_rewards()
DistributeCall ==
    /\ status = "running"
    /\ now' = now
    /\ last'.op = "distribute_rewards"

\* the sum of the recorded amounts, as a number (no width)
RECURSIVE TotalStaked(_)
TotalStaked(m) == IF m = <<>> THEN 0 ELSE m[1].amount + TotalStaked(Tail(m))

\* the sum of the amounts of a returned sequence, as a number
RECURSIVE RewardSum(_)
RewardSum(r) == IF r = <<>> THEN 0 ELSE r[1].amount + RewardSum(Tail(r))

\* floor(amount * total_reward / total_staked), as a number
ExactReward(amount, coins, total) == (amount * coins) \div total

AllZero(m) == \A i \in DOMAIN m : m[i].amount = 0

\* some intermediate value of distribute_rewards() does not fit in u64
Overflows(m, coins) ==
    \/ TotalStaked(m) > U64Max
    \/ \E i \in DOMAIN m : m[i].amount * coins > U64Max

Distributed == last.op = "distribute_rewards"

\* ------------------------------------------------------------------ claims

\* C1: a stake() call made when now >= created_at + 7 days fails with
\* DeadlineExceeded (the code's panic "Cannot stake after 7 days") and leaves
\* the stakes map exactly as it was before the call.
C1_RejectedStakeKeepsMap ==
    [][(StakeCall /\ now >= start_date + EnrollmentDays)
         => (last'.outcome = DeadlineExceeded /\ stakers' = stakers)]_vars

\* C1 witness: a participant not in the map is turned away on day 8 of a pool
\* that holds stakes, and is still not in the map.
C1_Witness ==
    /\ last.op = "stake"
    /\ last.time = start_date + 8
    /\ last.outcome = DeadlineExceeded
    /\ stakers # <<>>
    /\ last.user \notin Keys(stakers)

\* C2: a stake(p, a) call made when now < created_at + 7 days succeeds for
\* every p and every a >= 0 and leaves stakes[p] = a; the boundary is exact:
\* at now = created_at + 7 days the call is rejected.
C2_StakeBeforeDeadline ==
    [][StakeCall
         => /\ now < start_date + EnrollmentDays
                => (last'.outcome = Ok /\ Get(stakers', last'.user) = last'.amount)
            /\ now = start_date + EnrollmentDays
                => last'.outcome = DeadlineExceeded]_vars

\* C2 witness: a stake of amount zero accepted on the last day before the
\* deadline, recorded as zero.
C2_Witness ==
    /\ last.op = "stake"
    /\ last.time = start_date + EnrollmentDays - 1
    /\ last.amount = 0
    /\ last.outcome = Ok
    /\ Get(stakers, last.user) = 0

\* C3: the rejection of a late stake() comes back to the caller as an error
\* value: after it the caller is still executing (no panic in flight, no
\* process ended).
C3_RejectionIsReturned ==
    (last.op = "stake" /\ last.outcome = DeadlineExceeded) => status = "running"

\* C4: whenever total_staked > 0, distribute_rewards() returns exactly one
\* entry per recorded participant, each with
\* floor(stake * total_reward / total_staked).
C4_ProportionalRewards ==
    (Distributed /\ TotalStaked(stakers) > 0)
        => /\ last.outcome = Ok
           /\ Len(last.rewards) = Len(stakers)
           /\ {last.rewards[i].user : i \in DOMAIN last.rewards} = Keys(stakers)
           /\ \A i \in DOMAIN last.rewards :
                last.rewards[i].amount =
                    ExactReward(Get(stakers, last.rewards[i].user), total_coins,
                                TotalStaked(stakers))

\* C5: when stakes is non-empty and every recorded stake is zero,
\* distribute_rewards() returns the empty sequence and does not crash.
C5_AllZeroGivesEmpty ==
    (Distributed /\ stakers # <<>> /\ AllZero(stakers))
        => (last.outcome = Ok /\ last.rewards = <<>>)

\* C6: when amount * total_reward or the sum of the stakes exceeds the u64
\* range, distribute_rewards() neither faults nor returns a reward computed
\* from a wrapped value.
C6_OverflowIsHandled ==
    (Distributed /\ Overflows(stakers, total_coins))
        => /\ last.outcome = Ok
           /\ \A i \in DOMAIN last.rewards :
                last.rewards[i].amount =
                    ExactReward(Get(stakers, last.rewards[i].user), total_coins,
                                TotalStaked(stakers))

\* C7: for every stakes map with total_staked > 0, the rewards that
\* distribute_rewards() returns sum to at most total_reward.
C7_RewardsWithinTotal ==
    (Distributed /\ last.outcome = Ok /\ TotalStaked(stakers) > 0)
        => RewardSum(last.rewards) <= total_coins

\* C8: after any sequence of stake() calls the map holds exactly one entry
\* per participant that has staked, with the amount of that participant's
\* most recent successful stake() (never a sum of amounts).
C8_LastWriteWins ==
    /\ Len(stakers) = Cardinality(Keys(stakers))
    /\ Keys(stakers) = {u \in Users : latest[u] # None}
    /\ \A u \in Users : Get(stakers, u) = latest[u]

\* C8 witness: Alice staked 1, then 2: one entry, amount 2.
C8_Witness ==
    /\ last.op = "stake"
    /\ last.outcome = Ok
    /\ last.user = "Alice"
    /\ last.replaced = 1
    /\ last.amount = 2
    /\ stakers = <<Entry("Alice", 2)>>

\* C9: once a stake() call has been rejected, every later stake() call on
\* the pool is rejected too.
C9_ClosedStaysClosed ==
    (closed_at # None /\ last.op = "stake") => last.outcome = DeadlineExceeded

\* C9 witness: a first rejection on day 7, another stake() on day 8, rejected.
C9_Witness ==
    /\ closed_at = start_date + EnrollmentDays
    /\ last.op = "stake"
    /\ last.time = start_date + EnrollmentDays + 1
    /\ last.outcome = DeadlineExceeded
    /\ status = "running"

\* C10: distribute_rewards() changes none of stakes, total_reward and
\* created_at, and a call that follows another with no stake() in between
\* gives the same sequence (same entries, amounts and order).
C10_DistributeIsPure ==
    [][DistributeCall
         => /\ UNCHANGED <<stakers, total_coins, start_date>>
            /\ last.op = "distribute_rewards"
                => (last'.outcome = last.outcome /\ last'.rewards = last.rewards)]_vars

\* C10 witness: a second call in a row that returned two entries.
C10_Witness ==
    /\ last.op = "distribute_rewards"
    /\ last.again
    /\ last.outcome = Ok
    /\ Len(last.rewards) = 2
    /\ Len(stakers) = 2

\* the position of user in a returned sequence, 0 when absent
IndexOf(r, user) ==
    IF \E i \in DOMAIN r : r[i].user = user
    THEN CHOOSE i \in DOMAIN r : r[i].user = user
    ELSE 0

\* the truncation loss: what of total_reward the returned rewards leave over
Dust == total_coins - RewardSum(last.rewards)

\* every amount * total_reward is a multiple of total_staked
AllDivisible(m, coins) ==
    \A i \in DOMAIN m : (m[i].amount * coins) % TotalStaked(m) = 0

\* C11: the order of the returned sequence is fixed by the recorded stakes
\* alone: with Alice and Bob recorded, the entry for Alice is first (index 0
\* of the vector) and the entry for Bob second.
C11_FixedOrder ==
    (Distributed /\ last.outcome = Ok /\ Keys(stakers) = {"Alice", "Bob"})
        => (IndexOf(last.rewards, "Alice") = 1 /\ IndexOf(last.rewards, "Bob") = 2)

\* C12: distribute_rewards() on a pool with no recorded stakes returns the
\* empty sequence and does not crash, before and after the deadline.
C12_EmptyPoolGivesEmpty ==
    (Distributed /\ stakers = <<>>) => (last.outcome = Ok /\ last.rewards = <<>>)

\* C12 witness: the call made on an empty pool after a stake() was rejected.
C12_Witness ==
    /\ Distributed
    /\ stakers = <<>>
    /\ closed_at # None
    /\ last.time >= start_date + EnrollmentDays
    /\ last.outcome = Ok
    /\ last.rewards = <<>>

\* C13: distribute_rewards() is not gated by the enrollment window: called
\* at or after created_at + 7 days it is not turned away, and it gives what
\* it gave before the deadline for the same stakes and total_reward, also
\* after a stake() call has been rejected.
C13_DistributeNotGated ==
    (Distributed /\ last.time >= start_date + EnrollmentDays)
        => /\ last.outcome # DeadlineExceeded
           /\ open_result # NoResult
                => (last.outcome = open_result.outcome
                    /\ last.rewards = open_result.rewards)

\* C13 witness: two rewards returned before the deadline, a stake() rejected
\* after it, and then the same two rewards returned again.
C13_Witness ==
    /\ Distributed
    /\ closed_at # None
    /\ last.time >= start_date + EnrollmentDays
    /\ open_result.outcome = Ok
    /\ Len(open_result.rewards) = 2
    /\ last.outcome = Ok
    /\ last.rewards = open_result.rewards

\* the reward of user in a returned sequence, None when absent
RewardOf(r, user) == IF IndexOf(r, user) = 0 THEN None ELSE r[IndexOf(r, user)].amount

C15_NewGivesOpenEmptyPool ==
    last.op = "new"
        => /\ last.outcome = Ok
           /\ status = "running"
           /\ total_coins = last.amount
           /\ stakers = <<>>
           /\ start_date = last.time
           /\ last.time < start_date + EnrollmentDays

\* C15 witness: the pool made by new(0), before any call on it.
C15_Witness ==
    /\ last.op = "new"
    /\ last.amount = 0
    /\ total_coins = 0
    /\ stakers = <<>>
    /\ now = start_date

\* C16: a successful stake(p, a) changes the entry of p only: the entries of
\* all other participants stay, and no step at all changes total_reward or
\* created_at.
C16_StakeFrame ==
    [][/\ UNCHANGED <<total_coins, start_date>>
       /\ (StakeCall /\ last'.outcome = Ok)
            => \A u \in Users \ {last'.user} : Get(stakers', u) = Get(stakers, u)]_vars

\* C16 witness: Bob restaked (1, then 2) while Alice holds her stake.
C16_Witness ==
    /\ last.op = "stake"
    /\ last.outcome = Ok
    /\ last.user = "Bob"
    /\ last.replaced = 1
    /\ last.amount = 2
    /\ Get(stakers, "Alice") = U64Modulus \div 2
    /\ Get(stakers, "Bob") = 2

\* C17: when total_staked > 0 the amount lost to truncation is less than
\* the number of recorded participants, and zero when every
\* amount * total_reward is a multiple of total_staked.
C17_DustBelowParticipants ==
    (Distributed /\ last.outcome = Ok /\ TotalStaked(stakers) > 0)
        => /\ Dust < Len(stakers)
           /\ AllDivisible(stakers, total_coins) => Dust = 0

\* C18: when total_staked > 0 the rewards are monotone in the stake (so
\* equal stakes get equal rewards), a zero stake gets 0 and no reward
\* exceeds total_reward.
C18_MonotoneAndBounded ==
    (Distributed /\ last.outcome = Ok /\ TotalStaked(stakers) > 0)
        => /\ \A i, j \in DOMAIN last.rewards :
                Get(stakers, last.rewards[i].user) <= Get(stakers, last.rewards[j].user)
                    => last.rewards[i].amount <= last.rewards[j].amount
           /\ \A i \in DOMAIN last.rewards :
                /\ Get(stakers, last.rewards[i].user) = 0 => last.rewards[i].amount = 0
                /\ last.rewards[i].amount <= total_coins

====
